---- MODULE Spec2Model ----
(***************************************************************************)
(* State-machine model of the Vietnamese administrative document assistant *)
(* (trolyvanban): the retrying remote-call wrapper and the operations of  *)
(* the AI service, the page pipeline and the display preferences of the    *)
(* App component and the upload list of the DocumentAnalyzer component.    *)
(*                                                                         *)
(* Text is modelled as a sequence of one-character strings, so that        *)
(* toLowerCase, includes and trim are computed, not assumed.               *)
(***************************************************************************)
EXTENDS Integers, Sequences, FiniteSets, TLC

VARIABLES
    \* ---- callGeminiWithRetry (one call of the wrapper) ----
    retryPc,          \* "idle" | "attempt" | "waiting" | "returned" | "thrown"
    i,                \* the loop variable of the for loop
    lastError,        \* let lastError
    invocations,      \* number of times requestFn was invoked
    outcomes,         \* outcome of each invocation of requestFn, in order
    waits,            \* the delays passed to setTimeout, in order
    retryResult,      \* the value returned, or the error thrown, by the wrapper
    \* ---- the classification of one error (lines 28-29) ----
    clsError,         \* the caught error
    clsVerdict        \* "unset" | "rate" | "other"

retryVars == <<retryPc, i, lastError, invocations, outcomes, waits, retryResult>>
clsVars == <<clsError, clsVerdict>>

----------------------------------------------------------------------------
(* Text helpers *)

Upper == <<"A","B","C","D","E","F","G","H","I","J","K","L","M",
           "N","O","P","Q","R","S","T","U","V","W","X","Y","Z">>
Lower == <<"a","b","c","d","e","f","g","h","i","j","k","l","m",
           "n","o","p","q","r","s","t","u","v","w","x","y","z">>

\* String.prototype.toLowerCase on one character
LowerChar(c) ==
    IF \E k \in 1..Len(Upper) : Upper[k] = c
    THEN Lower[CHOOSE k \in 1..Len(Upper) : Upper[k] = c]
    ELSE c

\* String.prototype.toLowerCase
toLowerCase(s) == [k \in 1..Len(s) |-> LowerChar(s[k])]

\* String.prototype.includes
includes(s, sub) ==
    \E off \in 0..(Len(s) - Len(sub)) :
        \A k \in 1..Len(sub) : s[off + k] = sub[k]

----------------------------------------------------------------------------
(* Errors thrown by the remote operation *)

NoText == << >>
NameError == <<"E","r","r","o","r">>
NameApiError == <<"A","p","i","E","r","r","o","r">>

MkError(name, message) == [tag |-> "Error", name |-> name, message |-> message]
\* a rejection with null / undefined
NullError == [tag |-> "null", name |-> NoText, message |-> NoText]

\* Error.prototype.toString
ErrorToString(e) ==
    IF e.name = NoText THEN e.message
    ELSE IF e.message = NoText THEN e.name
    ELSE e.name \o <<":", " ">> \o e.message

errorString_CaseSensitive(error) ==
    IF error.tag = "null" THEN NoText ELSE ErrorToString(error)
\* const errorString = (error?.toString() ?? '').toLowerCase()
errorString(error) ==
    IF error.tag = "null" THEN NoText ELSE toLowerCase(ErrorToString(error))

Marker429 == <<"4","2","9">>
MarkerResourceExhausted ==
    <<"r","e","s","o","u","r","c","e","_","e","x","h","a","u","s","t","e","d">>
MarkerQuota == <<"q","u","o","t","a">>

isRateLimitError_NoQuota(error) ==
    \/ includes(errorString(error), Marker429)
    \/ includes(errorString(error), MarkerResourceExhausted)
\* const isRateLimitError = errorString.includes('429') || ... || ...
isRateLimitError(error) ==
    \/ includes(errorString(error), Marker429)
    \/ includes(errorString(error), MarkerResourceExhausted)
    \/ includes(errorString(error), MarkerQuota)

----------------------------------------------------------------------------
(* callGeminiWithRetry *)

MAX_RETRIES == 8
INITIAL_BACKOFF_MS == 2000
\* Math.random() * 1000 lies in [0, JitterRange)
JitterRange == 1000

\* the values of Math.random() * 1000 that are explored
JitterSamples == {0, JitterRange - 1}

RECURSIVE Pow2(_)
\* Math.pow(2, n)
Pow2(n) == IF n = 0 THEN 1 ELSE 2 * Pow2(n - 1)

backoffDelay_Linear(n, jitter) == INITIAL_BACKOFF_MS * (n + 1) + jitter
\* const delay = INITIAL_BACKOFF_MS * Math.pow(2, i) + Math.random() * 1000
backoffDelay(n, jitter) == INITIAL_BACKOFF_MS * Pow2(n) + jitter

loopContinues_Inclusive(n) == n <= MAX_RETRIES
\* the condition of "for (let i = 0; i < MAX_RETRIES; i++)"
loopContinues(n) == n < MAX_RETRIES

hasRetriesLeft_OffByOne(n) == n < MAX_RETRIES
\* if (i < MAX_RETRIES - 1)
hasRetriesLeft(n) == n < MAX_RETRIES - 1

\* the text of the fixed error thrown after the loop (stands for
\* 'Hệ thống AI đang tạm thời quá tải. Vui lòng thử lại sau ít phút.')
OverloadMessage == <<"o","v","e","r","l","o","a","d","e","d">>
OverloadError == MkError(NameError, OverloadMessage)

\* the successful responses requestFn may resolve with
Responses == {"response1", "response2"}

\* the errors requestFn may reject with in the wrapper's specification
RetryErrors ==
    { MkError(NameApiError, <<"4","2","9">>),
      MkError(NameError, <<"Q","u","o","t","a">>),
      MkError(NameApiError, <<"5","0","0">>),
      NullError }

Returned(v) == [kind |-> "return", value |-> v, error |-> NullError]
Thrown(e) == [kind |-> "throw", value |-> "none", error |-> e]
NoResult == [kind |-> "none", value |-> "none", error |-> NullError]

OkOutcome(v) == [ok |-> TRUE, value |-> v, error |-> NullError]
ErrOutcome(e) == [ok |-> FALSE, value |-> "none", error |-> e]

exhaustedResult_LastError(last) == Thrown(last)
\* throw new Error('Hệ thống AI đang tạm thời quá tải. ...') after the loop
exhaustedResult(last) == Thrown(OverloadError)

nonRetriableResult_Overload(error) == Thrown(OverloadError)
\* throw error; (the else branch of isRateLimitError)
nonRetriableResult(error) == Thrown(error)

InitRetry ==
    /\ retryPc = "attempt"
    /\ i = 0
    /\ lastError = NullError
    /\ invocations = 0
    /\ outcomes = << >>
    /\ waits = << >>
    /\ retryResult = NoResult

\* the head of "for (let i = 0; i < MAX_RETRIES; i++)" reached with i = n
LoopHead(n, last) ==
    /\ i' = n
    /\ IF loopContinues(n)
       THEN /\ retryPc' = "attempt"
            /\ retryResult' = retryResult
       ELSE /\ retryPc' = "thrown"
            /\ retryResult' = exhaustedResult(last)

\* return await requestFn();  -- requestFn resolves
RequestReturns ==
    /\ retryPc = "attempt"
    /\ \E v \in Responses :
          /\ outcomes' = Append(outcomes, OkOutcome(v))
          /\ retryResult' = Returned(v)
    /\ invocations' = invocations + 1
    /\ retryPc' = "returned"
    /\ UNCHANGED <<i, lastError, waits>>

\* requestFn rejects with a rate-limit error and retries are left:
\* the wrapper starts the backoff wait
RequestThrowsRetriable ==
    /\ retryPc = "attempt"
    /\ \E error \in RetryErrors :
          /\ isRateLimitError(error)
          /\ hasRetriesLeft(i)
          /\ lastError' = error
          /\ outcomes' = Append(outcomes, ErrOutcome(error))
    /\ \E jitter \in JitterSamples :
          waits' = Append(waits, backoffDelay(i, jitter))
    /\ invocations' = invocations + 1
    /\ retryPc' = "waiting"
    /\ UNCHANGED <<i, retryResult>>

\* requestFn rejects with a rate-limit error on the last pass of the loop:
\* no wait, i++ ends the loop
RequestThrowsExhausted ==
    /\ retryPc = "attempt"
    /\ \E error \in RetryErrors :
          /\ isRateLimitError(error)
          /\ ~hasRetriesLeft(i)
          /\ lastError' = error
          /\ outcomes' = Append(outcomes, ErrOutcome(error))
          /\ LoopHead(i + 1, error)
    /\ invocations' = invocations + 1
    /\ UNCHANGED waits

\* requestFn rejects with an error that is not a rate-limit error
RequestThrowsNonRetriable ==
    /\ retryPc = "attempt"
    /\ \E error \in RetryErrors :
          /\ ~isRateLimitError(error)
          /\ lastError' = error
          /\ outcomes' = Append(outcomes, ErrOutcome(error))
          /\ retryResult' = nonRetriableResult(error)
    /\ invocations' = invocations + 1
    /\ retryPc' = "thrown"
    /\ UNCHANGED <<i, waits>>

\* the setTimeout of the backoff resolves; i++ and the next pass
BackoffElapsed ==
    /\ retryPc = "waiting"
    /\ LoopHead(i + 1, lastError)
    /\ UNCHANGED <<lastError, invocations, outcomes, waits>>

----------------------------------------------------------------------------
(* The classification of a caught error, on its own *)

\* message texts of the errors that are classified
Prefixes == { NoText, <<"g","o","t"," ">>, <<"[","4","2","]"," ">> }
Suffixes == { NoText, <<" ","n","o","w">>, <<"9">> }
Cores ==
    { NoText,
      <<"4","2","9">>, <<"4","2"," ","9">>, <<"4","2">>,
      <<"q","u","o","t","a">>, <<"Q","U","O","T","A">>,
      <<"Q","u","o","t","a">>, <<"q","u","o","t","e">>,
      <<"q","u","o","t">>,
      MarkerResourceExhausted,
      <<"R","E","S","O","U","R","C","E","_","E","X","H","A","U","S","T","E","D">>,
      <<"R","e","s","o","u","r","c","e","_","E","x","h","a","u","s","t","e","d">>,
      <<"r","e","s","o","u","r","c","e"," ","e","x","h","a","u","s","t","e","d">>,
      <<"r","e","s","o","u","r","c","e","_","e","x","h","a","u","s","t">> }
ClassifiedTexts == { p \o c \o s : p \in Prefixes, c \in Cores, s \in Suffixes }
ClassifiedErrors ==
    { MkError(n, m) : n \in {NameError, NameApiError, NoText}, m \in ClassifiedTexts }
        \cup {NullError}

InitClassify ==
    /\ clsError \in ClassifiedErrors
    /\ clsVerdict = "unset"

\* lines 28-31: the catch block decides whether the error is retriable
Classify ==
    /\ clsVerdict = "unset"
    /\ clsVerdict' = IF isRateLimitError(clsError) THEN "rate" ELSE "other"
    /\ UNCHANGED clsError

----------------------------------------------------------------------------
(* App: the document, its pages and the page pipeline *)

VARIABLES
    docData,                 \* the DocumentData value (useState)
    activeTab,               \* "draft" | "analyze"
    processingPageIndex,     \* number | null (null is NullIndex)
    proofreadingPageIndex,   \* number | null
    isGeneratingDraft,       \* boolean
    debounceTimer,           \* the timer held by debounceTimeoutRef and the
                             \* docData.pages its callback closed over
    chains,                  \* the pipeline callbacks awaiting a remote response
    proofread,               \* the handleProofreadPage call awaiting its response
    crashed,                 \* rendering threw: React unmounted the application
    nextPageId,              \* the next value of `page-${Date.now()}`
    eventsLeft,              \* number of user interface events still explored
    chainsStarted,           \* number of pipeline chains started so far
    chainsInWindow           \* number of pipeline chains started since the
                             \* last change of docData.pages

pageVars == <<docData, activeTab, processingPageIndex, proofreadingPageIndex,
              isGeneratingDraft, debounceTimer, chains, proofread, crashed,
              nextPageId, eventsLeft, chainsStarted, chainsInWindow>>

\* bounds of the exploration
MaxPages == 3
MaxEvents == 4
MaxEventsDeep == 6
MaxChains == 2

NullIndex == -1
\* the value of a property that is not there
Undefined == <<"undefined">>

\* a string used as a condition
Truthy(text) == text # Undefined /\ text # NoText

IsWhitespace(c) == c = " "

RECURSIVE trimStart(_)
trimStart(text) ==
    IF text = NoText THEN text
    ELSE IF IsWhitespace(Head(text)) THEN trimStart(Tail(text))
    ELSE text

RECURSIVE trimEnd(_)
trimEnd(text) ==
    IF text = NoText THEN text
    ELSE IF IsWhitespace(text[Len(text)]) THEN trimEnd(SubSeq(text, 1, Len(text) - 1))
    ELSE text

\* String.prototype.trim
trim(text) == trimEnd(trimStart(text))

\* interface Page; kind tells an object from an array hole and from an
\* element that is undefined; id 0 is an absent id
Page(id, raw, processed, formatted) ==
    [kind |-> "page", id |-> id, rawContent |-> raw,
     processedContent |-> processed, formattedContent |-> formatted]
HoleSlot == [kind |-> "hole", id |-> 0, rawContent |-> Undefined,
             processedContent |-> Undefined, formattedContent |-> Undefined]
UndefinedSlot == [kind |-> "undef", id |-> 0, rawContent |-> Undefined,
                  processedContent |-> Undefined, formattedContent |-> Undefined]

\* {...element}: spreading undefined yields an object without properties
SpreadPage(slot) ==
    IF slot.kind = "page" THEN slot
    ELSE Page(0, Undefined, Undefined, Undefined)

\* [...pages]: the copy is dense, holes become undefined elements
ArrayCopy(pages) ==
    [k \in 1..Len(pages) |-> IF pages[k].kind = "hole" THEN UndefinedSlot ELSE pages[k]]

\* pages[index] (index counts from 0)
ArrayGet(pages, index) ==
    IF index < Len(pages) THEN pages[index + 1] ELSE UndefinedSlot

\* pages[index] = value: an index past the end lengthens the array and
\* leaves holes
ArraySet(pages, index, value) ==
    IF index < Len(pages)
    THEN [pages EXCEPT ![index + 1] = value]
    ELSE pages \o [k \in 1..(index - Len(pages)) |-> HoleSlot] \o <<value>>

\* the texts the user types into a page
RawInputs == { <<" ">>, <<"b">> }

\* the text the remote model returns for a formalize request
Formalized(raw) == <<"F">> \o raw
\* the text the remote model returns for a formatting request
Markdown(processed) == <<"M">> \o processed
\* the text the remote model returns for a proofread request
Proofread(raw) == <<"b">>
\* "Lỗi: Không thể xử lý nội dung. Vui lòng thử lại."
PipelineErrorMessage == <<"L","o","i">>

\* the GeneratedDraft values the remote model returns
DraftResults ==
    { [subject |-> "ai", rawContent |-> <<"b">>, recipients |-> "ai", signerTitle |-> "ai"],
      [subject |-> "", rawContent |-> NoText, recipients |-> "", signerTitle |-> ""] }

NoTimer == [pending |-> FALSE, pages |-> << >>]
ArmedTimer(pages) == [pending |-> TRUE, pages |-> pages]
NoProofread == [active |-> FALSE, index |-> NullIndex, rawContent |-> NoText, pageId |-> 0]

InitialRaw == <<"a">>

InitApp(budget) ==
    /\ docData = [subject |-> "init", recipients |-> "init", signerTitle |-> "init",
                  pages |-> << Page(1, InitialRaw, NoText, NoText) >>]
    /\ activeTab = "draft"
    /\ processingPageIndex = NullIndex
    /\ proofreadingPageIndex = NullIndex
    /\ isGeneratingDraft = FALSE
    /\ debounceTimer = ArmedTimer(<< Page(1, InitialRaw, NoText, NoText) >>)
    /\ chains = << >>
    /\ proofread = NoProofread
    /\ crashed = FALSE
    /\ nextPageId = 2
    /\ eventsLeft = budget
    /\ chainsStarted = 0
    /\ chainsInWindow = 0

\* DocumentForm reads page.id and page.rawContent.trim() of every element
\* that Array.prototype.map visits (map skips holes)
RenderThrows(pages) ==
    \E k \in 1..Len(pages) :
        \/ pages[k].kind = "undef"
        \/ pages[k].kind = "page" /\ pages[k].rawContent = Undefined

\* the pages DocumentForm shows, by index
Rendered(pages) == { k \in 0..(Len(pages) - 1) : pages[k + 1].kind = "page" }

\* A new docData with a new pages array is committed: the component renders
\* and the pipeline effect (deps [docData.pages, activeTab]) runs its cleanup
\* and arms a new timer that closes over the new pages.
CommitDoc(newDoc) ==
    /\ docData' = newDoc
    /\ chainsInWindow' = 0
    /\ IF activeTab = "draft"
       THEN IF RenderThrows(newDoc.pages)
            THEN crashed' = TRUE /\ debounceTimer' = NoTimer
            ELSE crashed' = crashed /\ debounceTimer' = ArmedTimer(newDoc.pages)
       ELSE crashed' = crashed /\ debounceTimer' = debounceTimer

CommitPages(newPages) == CommitDoc([docData EXCEPT !.pages = newPages])

handlePageContentChange_KeepsFormatted(pages, index, rawContent) ==
    LET newPages == ArrayCopy(pages) IN
    ArraySet(newPages, index,
             [SpreadPage(ArrayGet(newPages, index)) EXCEPT
                 !.rawContent = rawContent, !.processedContent = NoText])
\* handlePageContentChange: the updater passed to setDocData
handlePageContentChange(pages, index, rawContent) ==
    LET newPages == ArrayCopy(pages) IN
    ArraySet(newPages, index,
             [SpreadPage(ArrayGet(newPages, index)) EXCEPT
                 !.rawContent = rawContent,
                 !.processedContent = NoText,
                 !.formattedContent = NoText])

\* handleAddPage: [...prev.pages, { id, rawContent: '', ... }]
handleAddPage(pages, id) ==
    ArrayCopy(pages) \o << Page(id, NoText, NoText, NoText) >>

RECURSIVE FilterFrom(_, _, _)
FilterFrom(pages, k, index) ==
    IF k > Len(pages) THEN << >>
    ELSE IF pages[k].kind # "hole" /\ k - 1 # index
         THEN <<pages[k]>> \o FilterFrom(pages, k + 1, index)
         ELSE FilterFrom(pages, k + 1, index)

\* handleRemovePage: prev.pages.filter((_, i) => i !== index); filter does
\* not visit holes
handleRemovePage(pages, index) == FilterFrom(pages, 1, index)

\* results of findIndex other than an index
NotFound == -1
Throws == -2

\* p => p.rawContent.trim() && !p.processedContent
NeedsProcessing(p) == Truthy(trim(p.rawContent)) /\ ~Truthy(p.processedContent)

RECURSIVE FindFrom(_, _)
FindFrom(pages, k) ==
    IF k > Len(pages) THEN NotFound
    ELSE IF pages[k].kind # "page" \/ pages[k].rawContent = Undefined THEN Throws
    ELSE IF NeedsProcessing(pages[k]) THEN k - 1
    ELSE FindFrom(pages, k + 1)

RECURSIVE FindLastFrom(_, _)
FindLastFrom(pages, k) ==
    IF k < 1 THEN NotFound
    ELSE IF pages[k].kind # "page" \/ pages[k].rawContent = Undefined THEN Throws
    ELSE IF NeedsProcessing(pages[k]) THEN k - 1
    ELSE FindLastFrom(pages, k - 1)

findPageToProcess_Last(pages) == FindLastFrom(pages, Len(pages))
\* docData.pages.findIndex(p => p.rawContent.trim() && !p.processedContent);
\* findIndex visits every index, and reading a property of undefined throws
findPageToProcess(pages) == FindFrom(pages, 1)

Chain(index, page) ==
    [pageToProcessIndex |-> index, rawContent |-> page.rawContent,
     stage |-> "formalize", processedResult |-> NoText, pageId |-> page.id]

RemoveAt(seq, k) == SubSeq(seq, 1, k - 1) \o SubSeq(seq, k + 1, Len(seq))

\* writes of the pipeline callback into docData.pages
writeProcessed(pages, index, processedResult) ==
    LET newPages == ArrayCopy(pages) IN
    ArraySet(newPages, index,
             [SpreadPage(ArrayGet(newPages, index)) EXCEPT
                 !.processedContent = processedResult,
                 !.formattedContent = NoText])
writeFormatted(pages, index, formattedResult) ==
    LET newPages == ArrayCopy(pages) IN
    ArraySet(newPages, index,
             [SpreadPage(ArrayGet(newPages, index)) EXCEPT
                 !.formattedContent = formattedResult])

suggestFormattingWithAI_EmptyOnFailure(processedContent, remoteOk) ==
    IF remoteOk THEN Markdown(processedContent) ELSE NoText
\* suggestFormattingWithAI: the catch block returns its argument
suggestFormattingWithAI(processedContent, remoteOk) ==
    IF remoteOk THEN Markdown(processedContent) ELSE processedContent

\* ---- user interface events (the form is shown on the draft tab only) ----

CanHandleUserEvent ==
    /\ ~crashed
    /\ activeTab = "draft"
    /\ eventsLeft > 0

EditPageAt_AbortsRequest(index, rawContent) ==
    /\ CanHandleUserEvent
    /\ index \in Rendered(docData.pages)
    /\ rawContent # docData.pages[index + 1].rawContent
    /\ CommitPages(handlePageContentChange(docData.pages, index, rawContent))
    /\ eventsLeft' = eventsLeft - 1
    /\ chains' = SelectSeq(chains, LAMBDA c : c.pageToProcessIndex # index)
    /\ UNCHANGED <<activeTab, processingPageIndex, proofreadingPageIndex,
                   isGeneratingDraft, proofread, nextPageId, chainsStarted>>
\* onChange of the textarea of page index with the new value rawContent
EditPageAt(index, rawContent) ==
    /\ CanHandleUserEvent
    /\ index \in Rendered(docData.pages)
    /\ rawContent # docData.pages[index + 1].rawContent
    /\ CommitPages(handlePageContentChange(docData.pages, index, rawContent))
    /\ eventsLeft' = eventsLeft - 1
    /\ UNCHANGED <<activeTab, processingPageIndex, proofreadingPageIndex,
                   isGeneratingDraft, chains, proofread, nextPageId, chainsStarted>>

EditPage ==
    \E index \in 0..(Len(docData.pages) - 1), rawContent \in RawInputs :
        EditPageAt(index, rawContent)

\* onClick of "Thêm trang mới"
AddPage ==
    /\ CanHandleUserEvent
    /\ Len(docData.pages) < MaxPages
    /\ CommitPages(handleAddPage(docData.pages, nextPageId))
    /\ nextPageId' = nextPageId + 1
    /\ eventsLeft' = eventsLeft - 1
    /\ UNCHANGED <<activeTab, processingPageIndex, proofreadingPageIndex,
                   isGeneratingDraft, chains, proofread, chainsStarted>>

\* onClick of the remove button, shown while data.pages.length > 1
RemovePage_AlwaysOffered ==
    /\ CanHandleUserEvent
    /\ \E index \in Rendered(docData.pages) :
          CommitPages(handleRemovePage(docData.pages, index))
    /\ eventsLeft' = eventsLeft - 1
    /\ UNCHANGED <<activeTab, processingPageIndex, proofreadingPageIndex,
                   isGeneratingDraft, chains, proofread, nextPageId, chainsStarted>>
\* onClick of the remove button, rendered when data.pages.length > 1
RemovePage ==
    /\ CanHandleUserEvent
    /\ Len(docData.pages) > 1
    /\ \E index \in Rendered(docData.pages) :
          CommitPages(handleRemovePage(docData.pages, index))
    /\ eventsLeft' = eventsLeft - 1
    /\ UNCHANGED <<activeTab, processingPageIndex, proofreadingPageIndex,
                   isGeneratingDraft, chains, proofread, nextPageId, chainsStarted>>

\* the fields changed through handleDataChange
DataFields == {"subject"}
\* handleDataChange for a field other than issuingAuthority: pages keeps
\* its identity, so the pipeline effect does not run
ChangeData ==
    /\ CanHandleUserEvent
    /\ \E field \in DataFields :
          /\ docData[field] # "user"
          /\ docData' = [docData EXCEPT ![field] = "user"]
    /\ eventsLeft' = eventsLeft - 1
    /\ UNCHANGED <<activeTab, processingPageIndex, proofreadingPageIndex,
                   isGeneratingDraft, debounceTimer, chains, proofread, crashed,
                   nextPageId, chainsStarted, chainsInWindow>>

\* the tab buttons; the effect runs because activeTab is a dependency
SwitchTab ==
    /\ ~crashed
    /\ eventsLeft > 0
    /\ IF activeTab = "draft"
       THEN /\ activeTab' = "analyze"
            /\ debounceTimer' = NoTimer
            /\ crashed' = crashed
       ELSE /\ activeTab' = "draft"
            /\ IF RenderThrows(docData.pages)
               THEN crashed' = TRUE /\ debounceTimer' = NoTimer
               ELSE crashed' = crashed /\ debounceTimer' = ArmedTimer(docData.pages)
    /\ eventsLeft' = eventsLeft - 1
    /\ UNCHANGED <<docData, processingPageIndex, proofreadingPageIndex,
                   isGeneratingDraft, chains, proofread, nextPageId, chainsStarted,
                   chainsInWindow>>

\* ---- the pipeline effect of App ----

\* the callback of setTimeout(..., 1500)
TimerFires ==
    /\ ~crashed
    /\ debounceTimer.pending
    /\ debounceTimer' = NoTimer
    /\ LET pageToProcessIndex == findPageToProcess(debounceTimer.pages) IN
       IF pageToProcessIndex \in {NotFound, Throws}
       THEN UNCHANGED <<processingPageIndex, chains, chainsStarted, chainsInWindow>>
       ELSE /\ chainsStarted < MaxChains
            /\ processingPageIndex' = pageToProcessIndex
            /\ chains' = Append(chains,
                   Chain(pageToProcessIndex, debounceTimer.pages[pageToProcessIndex + 1]))
            /\ chainsStarted' = chainsStarted + 1
            /\ chainsInWindow' = chainsInWindow + 1
    /\ UNCHANGED <<docData, activeTab, proofreadingPageIndex, isGeneratingDraft,
                   proofread, crashed, nextPageId, eventsLeft>>

\* await formalizeContentWithAI(...) resolves: step 1 is written, step 2 starts
FormalizeReturns ==
    /\ ~crashed
    /\ \E c \in 1..Len(chains) :
          /\ chains[c].stage = "formalize"
          /\ LET processedResult == Formalized(chains[c].rawContent) IN
             /\ CommitPages(writeProcessed(docData.pages, chains[c].pageToProcessIndex,
                                           processedResult))
             /\ chains' = [chains EXCEPT ![c].stage = "format",
                                         ![c].processedResult = processedResult]
    /\ UNCHANGED <<activeTab, processingPageIndex, proofreadingPageIndex,
                   isGeneratingDraft, proofread, nextPageId, eventsLeft, chainsStarted>>

\* await formalizeContentWithAI(...) rejects: catch, then finally
FormalizeFails ==
    /\ ~crashed
    /\ \E c \in 1..Len(chains) :
          /\ chains[c].stage = "formalize"
          /\ CommitPages(writeProcessed(docData.pages, chains[c].pageToProcessIndex,
                                        PipelineErrorMessage))
          /\ chains' = RemoveAt(chains, c)
    /\ processingPageIndex' = NullIndex
    /\ UNCHANGED <<activeTab, proofreadingPageIndex, isGeneratingDraft, proofread,
                   nextPageId, eventsLeft, chainsStarted>>

\* await suggestFormattingWithAI(...) resolves for chain c (it does not
\* reject), the remote request having succeeded or not: step 2 is written,
\* then finally
FormatSettles(c, remoteOk) ==
    /\ ~crashed
    /\ c \in 1..Len(chains)
    /\ chains[c].stage = "format"
    /\ CommitPages(writeFormatted(docData.pages, chains[c].pageToProcessIndex,
              suggestFormattingWithAI(chains[c].processedResult, remoteOk)))
    /\ chains' = RemoveAt(chains, c)
    /\ processingPageIndex' = NullIndex
    /\ UNCHANGED <<activeTab, proofreadingPageIndex, isGeneratingDraft, proofread,
                   nextPageId, eventsLeft, chainsStarted>>

FormatReturns ==
    \E c \in 1..Len(chains), remoteOk \in BOOLEAN : FormatSettles(c, remoteOk)

\* ---- handleProofreadPage ----

\* onClick of "Sửa lỗi AI": disabled={!page.rawContent.trim() ||
\* proofreadingPageIndex !== null || processingPageIndex !== null}
ClickProofread ==
    /\ CanHandleUserEvent
    /\ proofreadingPageIndex = NullIndex
    /\ processingPageIndex = NullIndex
    /\ \E index \in Rendered(docData.pages) :
          /\ Truthy(trim(docData.pages[index + 1].rawContent))
          /\ proofreadingPageIndex' = index
          /\ proofread' = [active |-> TRUE, index |-> index,
                           rawContent |-> docData.pages[index + 1].rawContent,
                           pageId |-> docData.pages[index + 1].id]
    /\ eventsLeft' = eventsLeft - 1
    /\ UNCHANGED <<docData, activeTab, processingPageIndex, isGeneratingDraft,
                   debounceTimer, chains, crashed, nextPageId, chainsStarted,
                   chainsInWindow>>

\* await proofreadWithAI(...) resolves
ProofreadReturns ==
    /\ ~crashed
    /\ proofread.active
    /\ CommitPages(handlePageContentChange(docData.pages, proofread.index,
                                           Proofread(proofread.rawContent)))
    /\ proofreadingPageIndex' = NullIndex
    /\ proofread' = NoProofread
    /\ UNCHANGED <<activeTab, processingPageIndex, isGeneratingDraft, chains,
                   nextPageId, eventsLeft, chainsStarted>>

\* await proofreadWithAI(...) rejects: alert, then finally
ProofreadFails ==
    /\ ~crashed
    /\ proofread.active
    /\ proofreadingPageIndex' = NullIndex
    /\ proofread' = NoProofread
    /\ UNCHANGED <<docData, activeTab, processingPageIndex, isGeneratingDraft,
                   debounceTimer, chains, crashed, nextPageId, eventsLeft,
                   chainsStarted, chainsInWindow>>

\* ---- handleGenerateDraft ----

\* onClick of "Tạo nội dung tự động": disabled={!purpose.trim() || isLoading}
ClickGenerateDraft ==
    /\ CanHandleUserEvent
    /\ ~isGeneratingDraft
    /\ isGeneratingDraft' = TRUE
    /\ eventsLeft' = eventsLeft - 1
    /\ UNCHANGED <<docData, activeTab, processingPageIndex, proofreadingPageIndex,
                   debounceTimer, chains, proofread, crashed, nextPageId,
                   chainsStarted, chainsInWindow>>

\* the updater passed to setDocData by handleGenerateDraft
applyDraft(doc, result, id) ==
    LET copied == ArrayCopy(doc.pages)
        newPages == IF Len(copied) = 0
                    THEN << Page(id, NoText, NoText, NoText) >>
                    ELSE copied
        first == SpreadPage(newPages[1])
    IN  [subject |-> IF result.subject # "" THEN result.subject ELSE doc.subject,
         recipients |-> IF result.recipients # "" THEN result.recipients
                        ELSE doc.recipients,
         signerTitle |-> IF result.signerTitle # "" THEN result.signerTitle
                         ELSE doc.signerTitle,
         pages |-> [newPages EXCEPT ![1] =
                       [first EXCEPT
                           !.rawContent = IF Truthy(result.rawContent)
                                          THEN result.rawContent
                                          ELSE first.rawContent,
                           !.processedContent = NoText,
                           !.formattedContent = NoText]]]

\* await generateDocumentContentWithAI(...) resolves
DraftReturns ==
    /\ ~crashed
    /\ isGeneratingDraft
    /\ \E result \in DraftResults :
          CommitDoc(applyDraft(docData, result, nextPageId))
    /\ isGeneratingDraft' = FALSE
    /\ UNCHANGED <<activeTab, processingPageIndex, proofreadingPageIndex, chains,
                   proofread, nextPageId, eventsLeft, chainsStarted>>

\* await generateDocumentContentWithAI(...) rejects: alert, then finally
DraftFails ==
    /\ ~crashed
    /\ isGeneratingDraft
    /\ isGeneratingDraft' = FALSE
    /\ UNCHANGED <<docData, activeTab, processingPageIndex, proofreadingPageIndex,
                   debounceTimer, chains, proofread, crashed, nextPageId,
                   eventsLeft, chainsStarted, chainsInWindow>>

----------------------------------------------------------------------------
(* DocumentAnalyzer: the upload list and its processing queue *)

VARIABLES
    processedFiles,      \* the ProcessedFile[] value (useState)
    renderedFiles,       \* the processedFiles of the last render: what the
                         \* handlers and the effect of that render close over
    effectPending,       \* processedFiles changed: the processQueue effect is due
    extracting,          \* the awaited extractions, as <<file id, run>>
    starts,              \* per file id, how many extractions were started
    lateSettled,         \* ids whose extraction settled after the file's removal
    nextFileId,          \* the next value of `${name}-${lastModified}-${Math.random()}`
    fileEventsLeft,      \* number of user interface events still explored
    analysisPrompt,      \* the text of the analysis prompt (useState)
    isLoading,           \* an analyzeText request is awaited (useState)
    analyzedWith         \* the statuses of the upload list when analyzeText
                         \* was last invoked

anaVars == <<analysisPrompt, isLoading, analyzedWith>>
fileVars == <<processedFiles, renderedFiles, effectPending, extracting, starts,
              lateSettled, nextFileId, fileEventsLeft, anaVars>>

\* bounds of the exploration
MaxFiles == 3
MaxBatch == 2
MaxFileEvents == 4

\* the files the user picks
FileNames == {"a.txt"}
\* the texts extractContentFromFile resolves with
ExtractedTexts == { <<" ","y"," ">>, <<" ">> }
\* the messages of the errors extractContentFromFile rejects with
ExtractionErrors == { <<"u","n","s","u","p","p","o","r","t","e","d">>,
                      <<"c","o","r","r","u","p","t">> }

\* the entry handleNewFiles creates for a file
NewFile(id, file) ==
    [id |-> id, file |-> file, content |-> NoText, status |-> "pending",
     error |-> Undefined]

\* the identifiers handed out within the exploration bounds
FileIds == 1..(MaxBatch * MaxFileEvents)

InitAnalyzer(budget) ==
    /\ processedFiles = << >>
    /\ renderedFiles = << >>
    /\ effectPending = FALSE
    /\ extracting = {}
    /\ starts = [id \in FileIds |-> 0]
    /\ lateSettled = {}
    /\ analysisPrompt = NoText
    /\ isLoading = FALSE
    /\ analyzedWith = << >>
    /\ nextFileId = 1
    /\ fileEventsLeft = budget

\* the handlers that update functionally (prev => ...) do not depend on the
\* render they close over: they are taken between renders, after the effect
\* of the last change has run
CanHandleFileEvent ==
    /\ ~effectPending
    /\ fileEventsLeft > 0

\* handleNewFiles: setProcessedFiles(prev => [...prev, ...filesToAdd])
handleNewFiles(files, newFiles, firstId) ==
    files \o [k \in 1..Len(newFiles) |-> NewFile(firstId + k - 1, newFiles[k])]

Batches == UNION { [1..n -> FileNames] : n \in 1..MaxBatch }

\* the file input's onChange, or a drop, with a batch of files
AddFiles ==
    /\ CanHandleFileEvent
    /\ \E newFiles \in Batches :
          /\ Len(processedFiles) + Len(newFiles) <= MaxFiles
          /\ processedFiles' = handleNewFiles(processedFiles, newFiles, nextFileId)
          /\ nextFileId' = nextFileId + Len(newFiles)
    /\ renderedFiles' = processedFiles'
    /\ effectPending' = TRUE
    /\ fileEventsLeft' = fileEventsLeft - 1
    /\ UNCHANGED <<extracting, starts, lateSettled>>

\* the list holds an entry with this id
HasFile(files, id) == \E k \in 1..Len(files) : files[k].id = id

\* prev.map(f => f.id === id ? { ...f, status, ... } : f)
SetStatus(files, id, status) ==
    [k \in 1..Len(files) |->
        IF files[k].id = id THEN [files[k] EXCEPT !.status = status] ELSE files[k]]
SetDone_Upsert(files, id, content) ==
    IF \E k \in 1..Len(files) : files[k].id = id
    THEN [k \in 1..Len(files) |->
            IF files[k].id = id
            THEN [files[k] EXCEPT !.status = "done", !.content = trim(content)]
            ELSE files[k]]
    ELSE Append(files, [id |-> id, file |-> "a.txt", content |-> trim(content),
                        status |-> "done", error |-> Undefined])
SetDone(files, id, content) ==
    [k \in 1..Len(files) |->
        IF files[k].id = id
        THEN [files[k] EXCEPT !.status = "done", !.content = trim(content)]
        ELSE files[k]]
SetError_WholeList(files, id, message) ==
    [k \in 1..Len(files) |->
        IF files[k].id = id \/ files[k].status = "processing"
        THEN [files[k] EXCEPT !.status = "error", !.error = message]
        ELSE files[k]]
SetError(files, id, message) ==
    [k \in 1..Len(files) |->
        IF files[k].id = id
        THEN [files[k] EXCEPT !.status = "error", !.error = message]
        ELSE files[k]]

HasPending(files) == \E k \in 1..Len(files) : files[k].status = "pending"
FirstPending_Last(files) ==
    files[CHOOSE k \in 1..Len(files) :
            /\ files[k].status = "pending"
            /\ \A j \in (k + 1)..Len(files) : files[j].status # "pending"]
\* processedFiles.find(f => f.status === 'pending')
FirstPending(files) ==
    files[CHOOSE k \in 1..Len(files) :
            /\ files[k].status = "pending"
            /\ \A j \in 1..(k - 1) : files[j].status # "pending"]

\* the render of the changed processedFiles and its effect with deps
\* [processedFiles, extractContentFromFile]: processQueue up to its first
\* await; the update it queues is not rendered yet
ProcessQueue ==
    /\ effectPending
    /\ renderedFiles' = processedFiles
    /\ IF HasPending(processedFiles)
       THEN LET fileToProcess == FirstPending(processedFiles) IN
            /\ processedFiles' = SetStatus(processedFiles, fileToProcess.id, "processing")
            /\ extracting' = extracting \cup
                                {<<fileToProcess.id, starts[fileToProcess.id] + 1>>}
            /\ starts' = [starts EXCEPT ![fileToProcess.id] = @ + 1]
            /\ effectPending' = TRUE
       ELSE /\ effectPending' = FALSE
            /\ UNCHANGED <<processedFiles, extracting, starts>>
    /\ UNCHANGED <<lateSettled, nextFileId, fileEventsLeft>>

\* await extractContentFromFile(...) resolves
ExtractionDone ==
    /\ ~effectPending
    /\ \E run \in extracting, content \in ExtractedTexts :
          /\ processedFiles' = SetDone(processedFiles, run[1], content)
          /\ extracting' = extracting \ {run}
          /\ lateSettled' = IF HasFile(processedFiles, run[1]) THEN lateSettled
                            ELSE lateSettled \cup {run[1]}
    /\ effectPending' = TRUE
    /\ UNCHANGED <<renderedFiles, starts, nextFileId, fileEventsLeft>>

\* await extractContentFromFile(...) rejects
ExtractionFails ==
    /\ ~effectPending
    /\ \E run \in extracting, message \in ExtractionErrors :
          /\ processedFiles' = SetError(processedFiles, run[1], message)
          /\ extracting' = extracting \ {run}
          /\ lateSettled' = IF HasFile(processedFiles, run[1]) THEN lateSettled
                            ELSE lateSettled \cup {run[1]}
    /\ effectPending' = TRUE
    /\ UNCHANGED <<renderedFiles, starts, nextFileId, fileEventsLeft>>

RECURSIVE DropFile(_, _)
DropFile(files, file) ==
    IF files = << >> THEN << >>
    ELSE IF Head(files).file # file
         THEN <<Head(files)>> \o DropFile(Tail(files), file)
         ELSE DropFile(Tail(files), file)

removeFile_ByFile(files, id) ==
    DropFile(files, (CHOOSE f \in { files[k] : k \in 1..Len(files) } : f.id = id).file)
RECURSIVE removeFile(_, _)
\* removeFile: prev.filter(f => f.id !== id)
removeFile(files, id) ==
    IF files = << >> THEN << >>
    ELSE IF Head(files).id # id
         THEN <<Head(files)>> \o removeFile(Tail(files), id)
         ELSE removeFile(Tail(files), id)

\* onClick of the remove button of the entry with this id
RemoveFileOf(id) ==
    /\ CanHandleFileEvent
    /\ \E k \in 1..Len(processedFiles) : processedFiles[k].id = id
    /\ processedFiles' = removeFile(processedFiles, id)
    /\ renderedFiles' = processedFiles'
    /\ effectPending' = TRUE
    /\ fileEventsLeft' = fileEventsLeft - 1
    /\ UNCHANGED <<extracting, starts, lateSettled, nextFileId>>

RemoveFile == \E id \in 1..(nextFileId - 1) : RemoveFileOf(id)

\* handleSort: splice the dragged item out, splice it in at the drop index
handleSort(files, dragItem, dragOverItem) ==
    LET draggedItemContent == files[dragItem + 1]
        without == SubSeq(files, 1, dragItem) \o SubSeq(files, dragItem + 2, Len(files))
    IN  SubSeq(without, 1, dragOverItem) \o <<draggedItemContent>>
            \o SubSeq(without, dragOverItem + 1, Len(without))

\* onDragEnd after a drag from index dragItem over index dragOverItem:
\* setProcessedFiles(newFiles), where newFiles is a reordered copy of the
\* processedFiles of the render the handler belongs to. The drop can come
\* after an update queued by the effect or by a settled extraction and
\* before the render of that update.
SortFiles ==
    /\ fileEventsLeft > 0
    /\ \E dragItem, dragOverItem \in 0..(Len(renderedFiles) - 1) :
          /\ dragItem # dragOverItem
          /\ processedFiles' = handleSort(renderedFiles, dragItem, dragOverItem)
    /\ renderedFiles' = processedFiles'
    /\ effectPending' = TRUE
    /\ fileEventsLeft' = fileEventsLeft - 1
    /\ UNCHANGED <<extracting, starts, lateSettled, nextFileId>>

\* ---- the analysis request ----

\* what the user types into the prompt, and the value of a quick prompt
PromptInputs == { <<" ">>, <<"q">> }
QuickPrompt == <<"T","o","m"," ","t","a","t">>

\* processedFiles.every(f => f.status === 'done' || f.status === 'error')
allFilesProcessed(files) ==
    \A k \in 1..Len(files) : files[k].status \in {"done", "error"}
\* processedFiles.filter(f => f.status === 'done').length
successfulFilesCount(files) ==
    Cardinality({ k \in 1..Len(files) : files[k].status = "done" })
\* processedFiles.filter(pf => pf.status === 'done' && pf.content)
validFiles(files) ==
    SelectSeq(files, LAMBDA pf : pf.status = "done" /\ Truthy(pf.content))

\* section 3 (prompt, quick prompts, analysis button) is rendered
AnalysisSectionShown ==
    /\ CanHandleFileEvent
    /\ successfulFilesCount(renderedFiles) > 0

\* onChange of the prompt textarea
TypePrompt ==
    /\ AnalysisSectionShown
    /\ \E text \in PromptInputs :
          /\ text # analysisPrompt
          /\ analysisPrompt' = text
    /\ fileEventsLeft' = fileEventsLeft - 1
    /\ UNCHANGED <<processedFiles, renderedFiles, effectPending, extracting, starts,
                   lateSettled, nextFileId, isLoading, analyzedWith>>

\* handleAnalysis(promptOverride), of the render the handler closes over
handleAnalysis(promptToUse) ==
    IF validFiles(renderedFiles) = << >> \/ ~Truthy(trim(promptToUse))
    THEN UNCHANGED <<isLoading, analyzedWith>>
    ELSE /\ isLoading' = TRUE
         /\ analyzedWith' = [k \in 1..Len(processedFiles) |-> processedFiles[k].status]

\* onClick of "Bắt đầu Phân tích": disabled={!analysisPrompt.trim() ||
\* isLoading || !allFilesProcessed}
ClickAnalysis ==
    /\ AnalysisSectionShown
    /\ Truthy(trim(analysisPrompt))
    /\ ~isLoading
    /\ allFilesProcessed(renderedFiles)
    /\ handleAnalysis(analysisPrompt)
    /\ fileEventsLeft' = fileEventsLeft - 1
    /\ UNCHANGED <<processedFiles, renderedFiles, effectPending, extracting, starts,
                   lateSettled, nextFileId, analysisPrompt>>

\* onClick of a quick prompt button: disabled={isLoading};
\* handleQuickPromptClick sets the prompt and calls handleAnalysis(prompt)
ClickQuickPrompt ==
    /\ AnalysisSectionShown
    /\ ~isLoading
    /\ analysisPrompt' = QuickPrompt
    /\ handleAnalysis(QuickPrompt)
    /\ fileEventsLeft' = fileEventsLeft - 1
    /\ UNCHANGED <<processedFiles, renderedFiles, effectPending, extracting, starts,
                   lateSettled, nextFileId>>

\* await analyzeText(...) resolves or rejects, then finally
AnalysisSettles ==
    /\ isLoading
    /\ isLoading' = FALSE
    /\ UNCHANGED <<processedFiles, renderedFiles, effectPending, extracting, starts,
                   lateSettled, nextFileId, fileEventsLeft, analysisPrompt, analyzedWith>>

----------------------------------------------------------------------------
(* The AI service: one call of an exported operation, from the entry point *)
(* of the user interface that awaits it to the error it shows              *)

VARIABLES
    apiKey,        \* import.meta.env.VITE_API_KEY ("" when it is not set)
    svcOp,         \* the exported operation that is called
    svcPc,         \* "idle" | "called" | "requesting" | "settled" | "surfaced"
    svcResult,     \* the value the operation resolves with, or the error it rejects with
    surfaced       \* the error text the entry point shows to the user

svcVars == <<apiKey, svcOp, svcPc, svcResult, surfaced>>

Operations ==
    { "generateDocumentContentWithAI", "formalizeContentWithAI",
      "suggestFormattingWithAI", "proofreadWithAI", "extractTextFromImage",
      "analyzeText" }

ApiKeys == { "", "key" }

\* bound of the exploration: rate-limit answers of the remote model per call
MaxRateLimited == 2

\* "API key not configured."
ConfigMessage == <<"A","P","I"," ","k","e","y"," ","n","o","t"," ",
                   "c","o","n","f","i","g","u","r","e","d",".">>
ConfigError == MkError(NameError, ConfigMessage)

getAIClient_NoCheck(key) == Returned("client")
\* getAIClient: throws when the key is falsy
getAIClient(key) ==
    IF key = "" THEN Thrown(ConfigError) ELSE Returned("client")

\* reading error.message of null throws a TypeError
NameTypeError == <<"T","y","p","e","E","r","r","o","r">>
NullMessageError == MkError(NameTypeError, <<"n","u","l","l",".","m","e","s","s","a","g","e">>)

\* the text after || in the catch block of each operation
FallbackMessage(op) ==
    CASE op = "generateDocumentContentWithAI" -> <<"d","r","a","f","t","?">>
      [] op = "formalizeContentWithAI" -> <<"f","o","r","m","a","l","i","z","e","?">>
      [] op = "proofreadWithAI" -> <<"p","r","o","o","f","r","e","a","d","?">>
      [] op = "extractTextFromImage" -> <<"e","x","t","r","a","c","t","?">>
      [] op = "analyzeText" -> <<"a","n","a","l","y","z","e","?">>
      [] OTHER -> NoText

\* a || b on strings
OrElse(text, fallback) == IF Truthy(text) THEN text ELSE fallback

\* the catch block of an operation: suggestFormattingWithAI returns its
\* argument, the others throw new Error(error.message || fallback)
operationCatch(op, error) ==
    IF op = "suggestFormattingWithAI" THEN Returned("processedContent")
    ELSE IF error.tag = "null" THEN Thrown(NullMessageError)
    ELSE Thrown(MkError(NameError, OrElse(error.message, FallbackMessage(op))))

\* what the operation settles with, given how callGeminiWithRetry ended
operationResult(op, wrapperResult) ==
    IF wrapperResult.kind = "return" THEN Returned(wrapperResult.value)
    ELSE operationCatch(op, wrapperResult.error)

\* alert("Đã xảy ra lỗi khi cố gắng kiểm tra văn bản. Vui lòng thử lại.")
ProofreadAlertMessage == <<"a","l","e","r","t">>
\* "Đã xảy ra lỗi khi AI tạo nội dung. Vui lòng thử lại."
DraftAlertFallback == <<"d","r","a","f","t","!">>

\* the error text the awaiting handler shows when the operation rejects
surfacedError(op, error) ==
    CASE op \in {"formalizeContentWithAI", "suggestFormattingWithAI"} ->
             PipelineErrorMessage
      [] op = "proofreadWithAI" -> ProofreadAlertMessage
      [] op = "generateDocumentContentWithAI" ->
             OrElse(error.message, DraftAlertFallback)
      [] OTHER -> error.message

InitService ==
    /\ apiKey \in ApiKeys
    /\ svcOp \in Operations
    /\ svcPc = "called"
    /\ svcResult = NoResult
    /\ surfaced = NoText
    /\ retryPc = "idle"
    /\ i = 0
    /\ lastError = NullError
    /\ invocations = 0
    /\ outcomes = << >>
    /\ waits = << >>
    /\ retryResult = NoResult

IdleService ==
    /\ apiKey = "key"
    /\ svcOp = "analyzeText"
    /\ svcPc = "idle"
    /\ svcResult = NoResult
    /\ surfaced = NoText

\* the operation is called: const ai = getAIClient(), before the try block;
\* with a client the operation calls callGeminiWithRetry
CallOperation ==
    /\ svcPc = "called"
    /\ LET client == getAIClient(apiKey) IN
       IF client.kind = "throw"
       THEN /\ svcResult' = client
            /\ svcPc' = "settled"
            /\ retryPc' = retryPc
       ELSE /\ svcResult' = svcResult
            /\ svcPc' = "requesting"
            /\ retryPc' = "attempt"
    /\ UNCHANGED <<apiKey, svcOp, surfaced, i, lastError, invocations, outcomes,
                   waits, retryResult>>

\* callGeminiWithRetry has returned or thrown: the rest of the try block,
\* or the catch block, of the operation
OperationSettles ==
    /\ svcPc = "requesting"
    /\ retryPc \in {"returned", "thrown"}
    /\ svcResult' = operationResult(svcOp, retryResult)
    /\ svcPc' = "settled"
    /\ UNCHANGED <<apiKey, svcOp, surfaced, retryVars>>

\* the handler awaiting the operation resumes
SurfaceResult ==
    /\ svcPc = "settled"
    /\ surfaced' = IF svcResult.kind = "throw"
                   THEN surfacedError(svcOp, svcResult.error)
                   ELSE NoText
    /\ svcPc' = "surfaced"
    /\ UNCHANGED <<apiKey, svcOp, svcResult, retryVars>>

----------------------------------------------------------------------------
(* App: the display preferences and their copy in localStorage *)

VARIABLES
    storage,        \* localStorage: the item stored under each key
    fontState,      \* the fontFamily and fontSize values (useState) of the session
    queuedFont,     \* the setFontFamily / setFontSize calls of the load effect
                    \* that the next render applies
    prefPc,         \* "closed" | "mounted" | "update" | "save" | "idle"
    chosen,         \* the last value the user selected for each preference
    sessions        \* number of sessions started so far

prefVars == <<storage, fontState, queuedFont, prefPc, chosen, sessions>>

\* bound of the exploration
MaxSessions == 3

\* 'documentPreviewFontFamily' and 'documentPreviewFontSize'
PrefKeys == {"fontFamily", "fontSize"}
\* localStorage.getItem of a key that is not stored
NoItem == "null"
\* useState("'Times New Roman', Times, serif") and useState('13pt')
DefaultFont == [fontFamily |-> "Times New Roman", fontSize |-> "13pt"]
\* the options of the two select elements
FontOptions == [fontFamily |-> {"Times New Roman", "Arial"},
                fontSize |-> {"13pt", "14pt"}]
NothingQueued == [k \in PrefKeys |-> NoItem]

\* if (savedFontFamily) ...
TruthyItem(item) == item # NoItem /\ item # ""

InitPrefs ==
    /\ storage = [k \in PrefKeys |-> NoItem]
    /\ fontState = DefaultFont
    /\ queuedFont = NothingQueued
    /\ prefPc = "closed"
    /\ chosen = [k \in PrefKeys |-> NoItem]
    /\ sessions = 0

\* the page is opened: App mounts with the built-in defaults
StartSession ==
    /\ prefPc = "closed"
    /\ sessions < MaxSessions
    /\ sessions' = sessions + 1
    /\ fontState' = DefaultFont
    /\ queuedFont' = NothingQueued
    /\ prefPc' = "mounted"
    /\ UNCHANGED <<storage, chosen>>

loadEffect_Skipped(store) == NothingQueued
\* the effect with deps []: the state setters it calls for the stored items
loadEffect(store) ==
    [k \in PrefKeys |-> IF TruthyItem(store[k]) THEN store[k] ELSE NoItem]

\* the state after the queued setter calls
applyQueued(state, queued) ==
    [k \in PrefKeys |-> IF queued[k] # NoItem THEN queued[k] ELSE state[k]]

\* the effect with deps [fontFamily, fontSize]: both setItem calls
saveEffect(state) == [k \in PrefKeys |-> state[k]]

rerunsSaveEffect_Never(before, after) == FALSE
\* the deps [fontFamily, fontSize] of the save effect changed
rerunsSaveEffect(before, after) == after # before

\* the effects of the mount run in order: the load effect reads the stored
\* items and queues the setters, the save effect writes the values of the
\* first render
MountEffects ==
    /\ prefPc = "mounted"
    /\ queuedFont' = loadEffect(storage)
    /\ storage' = saveEffect(fontState)
    /\ prefPc' = IF applyQueued(fontState, loadEffect(storage)) # fontState
                 THEN "update" ELSE "idle"
    /\ UNCHANGED <<fontState, chosen, sessions>>

\* the render after the setters of the load effect
ApplyQueuedFont ==
    /\ prefPc = "update"
    /\ fontState' = applyQueued(fontState, queuedFont)
    /\ queuedFont' = NothingQueued
    /\ prefPc' = IF rerunsSaveEffect(fontState, fontState') THEN "save" ELSE "idle"
    /\ UNCHANGED <<storage, chosen, sessions>>

\* the save effect runs after a render with changed values
SaveEffect ==
    /\ prefPc = "save"
    /\ storage' = saveEffect(fontState)
    /\ prefPc' = "idle"
    /\ UNCHANGED <<fontState, queuedFont, chosen, sessions>>

\* onChange of a select element: the setter, then the render
SelectFont ==
    /\ prefPc = "idle"
    /\ \E k \in PrefKeys : \E value \in FontOptions[k] :
          /\ value # fontState[k]
          /\ fontState' = [fontState EXCEPT ![k] = value]
          /\ chosen' = [chosen EXCEPT ![k] = value]
    /\ prefPc' = "save"
    /\ UNCHANGED <<storage, queuedFont, sessions>>

\* the page is closed once its startup effects have run
CloseSession ==
    /\ prefPc = "idle"
    /\ prefPc' = "closed"
    /\ fontState' = DefaultFont
    /\ UNCHANGED <<storage, queuedFont, chosen, sessions>>

----------------------------------------------------------------------------
(* Specifications *)

vars == <<retryVars, clsVars, pageVars, fileVars, svcVars, prefVars>>

IdleRetry == InitRetry
IdleClassify == clsError = NullError /\ clsVerdict = "unset"
IdleApp == InitApp(0)
IdleAnalyzer == InitAnalyzer(0)

\* one call of callGeminiWithRetry
InitRetrySpec == InitRetry /\ IdleClassify /\ IdleApp /\ IdleAnalyzer /\ IdleService /\ InitPrefs
RetryFrame == UNCHANGED <<clsVars, pageVars, fileVars, svcVars, prefVars>>
NextRetry ==
    \/ RequestReturns /\ RetryFrame
    \/ RequestThrowsRetriable /\ RetryFrame
    \/ RequestThrowsExhausted /\ RetryFrame
    \/ RequestThrowsNonRetriable /\ RetryFrame
    \/ BackoffElapsed /\ RetryFrame
SpecRetry == InitRetrySpec /\ [][NextRetry]_vars

\* the classification of one caught error
InitClassifySpec == InitClassify /\ IdleRetry /\ IdleApp /\ IdleAnalyzer /\ IdleService /\ InitPrefs
NextClassify == Classify /\ UNCHANGED <<retryVars, pageVars, fileVars, svcVars, prefVars>>
SpecClassify == InitClassifySpec /\ [][NextClassify]_vars

\* the App component
InitPages == InitApp(MaxEvents) /\ IdleRetry /\ IdleClassify /\ IdleAnalyzer /\ IdleService /\ InitPrefs
PagesFrame == UNCHANGED <<retryVars, clsVars, fileVars, svcVars, prefVars>>
NextPages ==
    \/ EditPage /\ PagesFrame
    \/ AddPage /\ PagesFrame
    \/ RemovePage /\ PagesFrame
    \/ ChangeData /\ PagesFrame
    \/ SwitchTab /\ PagesFrame
    \/ TimerFires /\ PagesFrame
    \/ FormalizeReturns /\ PagesFrame
    \/ FormalizeFails /\ PagesFrame
    \/ FormatReturns /\ PagesFrame
    \/ ClickProofread /\ PagesFrame
    \/ ProofreadReturns /\ PagesFrame
    \/ ProofreadFails /\ PagesFrame
    \/ ClickGenerateDraft /\ PagesFrame
    \/ DraftReturns /\ PagesFrame
    \/ DraftFails /\ PagesFrame
SpecPages == InitPages /\ [][NextPages]_vars

\* the App component under fair scheduling: a pending timer fires and every
\* awaited remote call settles
PagesFairness ==
    /\ WF_vars(TimerFires /\ PagesFrame)
    /\ WF_vars((FormalizeReturns \/ FormalizeFails) /\ PagesFrame)
    /\ WF_vars(FormatReturns /\ PagesFrame)
    /\ WF_vars((ProofreadReturns \/ ProofreadFails) /\ PagesFrame)
    /\ WF_vars((DraftReturns \/ DraftFails) /\ PagesFrame)
SpecPagesLive == InitPages /\ [][NextPages]_vars /\ PagesFairness

\* the App component, explored over longer sequences of user events
InitPagesDeep == InitApp(MaxEventsDeep) /\ IdleRetry /\ IdleClassify /\ IdleAnalyzer
                    /\ IdleService /\ InitPrefs
SpecPagesDeep == InitPagesDeep /\ [][NextPages]_vars

\* the DocumentAnalyzer component
InitFiles == InitAnalyzer(MaxFileEvents) /\ IdleRetry /\ IdleClassify /\ IdleApp /\ IdleService /\ InitPrefs
FilesFrame == UNCHANGED <<retryVars, clsVars, pageVars, svcVars, prefVars, anaVars>>
NextFiles ==
    \/ AddFiles /\ FilesFrame
    \/ ProcessQueue /\ FilesFrame
    \/ ExtractionDone /\ FilesFrame
    \/ ExtractionFails /\ FilesFrame
    \/ RemoveFile /\ FilesFrame
    \/ SortFiles /\ FilesFrame
SpecFiles == InitFiles /\ [][NextFiles]_vars

\* the DocumentAnalyzer component under fair scheduling: the effect that is
\* due runs, and every awaited extraction resolves or rejects
FilesFairness ==
    /\ WF_vars(ProcessQueue /\ FilesFrame)
    /\ WF_vars((ExtractionDone \/ ExtractionFails) /\ FilesFrame)
SpecFilesLive == InitFiles /\ [][NextFiles]_vars /\ FilesFairness

\* the DocumentAnalyzer component with its analysis request
AnalysisFrame == UNCHANGED <<retryVars, clsVars, pageVars, svcVars, prefVars>>
NextAnalysis ==
    \/ AddFiles /\ FilesFrame
    \/ ProcessQueue /\ FilesFrame
    \/ ExtractionDone /\ FilesFrame
    \/ ExtractionFails /\ FilesFrame
    \/ RemoveFile /\ FilesFrame
    \/ SortFiles /\ FilesFrame
    \/ TypePrompt /\ AnalysisFrame
    \/ ClickAnalysis /\ AnalysisFrame
    \/ ClickQuickPrompt /\ AnalysisFrame
    \/ AnalysisSettles /\ AnalysisFrame
SpecAnalysis == InitFiles /\ [][NextAnalysis]_vars

\* one call of an operation of the AI service; the remote model answers at
\* most MaxRateLimited requests of the call with a rate-limit error (the
\* exhaustion of all retries is explored by SpecRetry)
InitServiceSpec == InitService /\ IdleClassify /\ IdleApp /\ IdleAnalyzer /\ InitPrefs
ServiceFrame == UNCHANGED <<clsVars, pageVars, fileVars, prefVars>>
NextService ==
    \/ CallOperation /\ ServiceFrame
    \/ RequestReturns /\ RetryFrame
    \/ RequestThrowsRetriable /\ invocations < MaxRateLimited /\ RetryFrame
    \/ RequestThrowsNonRetriable /\ RetryFrame
    \/ BackoffElapsed /\ RetryFrame
    \/ OperationSettles /\ ServiceFrame
    \/ SurfaceResult /\ ServiceFrame
SpecService == InitServiceSpec /\ [][NextService]_vars

\* the display preferences over several sessions of the page
InitPrefsSpec == InitPrefs /\ IdleRetry /\ IdleClassify /\ IdleApp /\ IdleAnalyzer
                    /\ IdleService
PrefsFrame == UNCHANGED <<retryVars, clsVars, pageVars, fileVars, svcVars>>
NextPrefs ==
    \/ StartSession /\ PrefsFrame
    \/ MountEffects /\ PrefsFrame
    \/ ApplyQueuedFont /\ PrefsFrame
    \/ SaveEffect /\ PrefsFrame
    \/ SelectFont /\ PrefsFrame
    \/ CloseSession /\ PrefsFrame
SpecPrefs == InitPrefsSpec /\ [][NextPrefs]_vars

----------------------------------------------------------------------------
(* Properties of callGeminiWithRetry *)

\* two characters that differ at most in case
SameLetter(a, b) ==
    \/ a = b
    \/ \E k \in 1..Len(Upper) : {a, b} = {Upper[k], Lower[k]}

\* text contains marker, compared case-insensitively
ContainsIgnoringCase(text, marker) ==
    \E off \in 0..(Len(text) - Len(marker)) :
        \A k \in 1..Len(marker) : SameLetter(text[off + k], marker[k])

\* the diagnostic text an error carries
DiagnosticText(e) == IF e.tag = "null" THEN NoText ELSE ErrorToString(e)

RateLimitMarkers == { Marker429, MarkerResourceExhausted, MarkerQuota }

\* the error carries a rate-limit marker
RateLimitMarked(e) ==
    \E marker \in RateLimitMarkers : ContainsIgnoringCase(DiagnosticText(e), marker)

RateLimitFailure(outcome) == ~outcome.ok /\ RateLimitMarked(outcome.error)
OtherFailure(outcome) == ~outcome.ok /\ ~RateLimitMarked(outcome.error)

AllRateLimited == \A k \in 1..Len(outcomes) : RateLimitFailure(outcomes[k])

WrapperRunning == retryPc \in {"attempt", "waiting"}
WrapperEnded == retryPc \in {"returned", "thrown"}

\* C1: an operation that fails with a rate-limit-marked error on every
\* attempt is invoked exactly 8 times: the wrapper goes on while fewer than 8
\* attempts have failed, and after the 8th it throws the fixed overload
\* error, not the operation's own error.
C1_AllRateLimitedThrowsOverloadAfter8 ==
    AllRateLimited =>
        /\ Len(outcomes) < 8 => WrapperRunning
        /\ Len(outcomes) >= 8 =>
              /\ invocations = 8
              /\ retryPc = "thrown"
              /\ retryResult = Thrown(OverloadError)
              /\ retryResult.error # outcomes[8].error

C1_Witness ==
    /\ AllRateLimited
    /\ invocations = 8
    /\ retryPc = "thrown"

\* C2: when the first attempt fails with a rate-limit error the wrapper
\* invokes the operation again, and when that second attempt succeeds the
\* operation has been invoked exactly twice and the wrapper returns the
\* value of the second invocation.
C2_FailOnceThenSucceed ==
    /\ (Len(outcomes) = 1 /\ RateLimitFailure(outcomes[1])) => WrapperRunning
    /\ (Len(outcomes) >= 2 /\ RateLimitFailure(outcomes[1]) /\ outcomes[2].ok) =>
          /\ invocations = 2
          /\ Len(outcomes) = 2
          /\ retryPc = "returned"
          /\ retryResult = Returned(outcomes[2].value)

C2_Witness ==
    /\ Len(outcomes) = 2
    /\ RateLimitFailure(outcomes[1])
    /\ outcomes[2].ok
    /\ retryPc = "returned"

\* C3: an attempt that fails with an error without a rate-limit marker ends
\* the wrapper at once with that same error: it is the last invocation (all
\* k-1 before it were rate-limit failures, so k invocations in all), and no
\* wait follows it.
C3_NonRateLimitErrorPropagates ==
    \A k \in 1..Len(outcomes) :
        OtherFailure(outcomes[k]) =>
            /\ k = Len(outcomes)
            /\ invocations = k
            /\ \A j \in 1..(k - 1) : RateLimitFailure(outcomes[j])
            /\ retryPc = "thrown"
            /\ retryResult = Thrown(outcomes[k].error)
            /\ Len(waits) = k - 1

C3_Witness ==
    /\ Len(outcomes) = 3
    /\ OtherFailure(outcomes[3])
    /\ retryPc = "thrown"

\* the lower bounds 2000 * 2^(k-1) of the wait before the k-th retry
BackoffFloor == <<2000, 4000, 8000, 16000, 32000, 64000, 128000>>

\* C4: the wait before the k-th retry (k = 1..7) lies in
\* [2000*2^(k-1), 2000*2^(k-1) + 1000), and every retry is preceded by
\* exactly one wait: one wait per failed attempt that is retried.
C4_BackoffDelayRange ==
    /\ Len(waits) <= 7
    /\ \A k \in 1..Len(waits) :
          /\ waits[k] >= BackoffFloor[k]
          /\ waits[k] < BackoffFloor[k] + 1000
    /\ WrapperRunning => Len(waits) = invocations
    /\ WrapperEnded => Len(waits) = invocations - 1

C4_Witness ==
    /\ Len(waits) = 7
    /\ retryPc = "attempt"
    /\ waits[7] > BackoffFloor[7]

\* C5: whatever the outcomes of the attempts, the operation is invoked at
\* most 8 times in one call of the wrapper.
C5_AtMost8Invocations ==
    /\ invocations <= 8
    /\ Len(outcomes) <= 8

C5_Witness ==
    /\ invocations = 8
    /\ retryPc = "returned"

\* C6: a caught error is classified as rate-limited exactly when its
\* diagnostic text, compared case-insensitively, contains one of "429",
\* "resource_exhausted", "quota"; every other error is non-retriable.
C6_ClassifiedByMarker ==
    /\ clsVerdict = "rate" => RateLimitMarked(clsError)
    /\ clsVerdict = "other" => ~RateLimitMarked(clsError)

C6_Witness ==
    /\ clsVerdict = "rate"
    /\ ContainsIgnoringCase(DiagnosticText(clsError), MarkerQuota)
    /\ ~includes(DiagnosticText(clsError), MarkerQuota)

----------------------------------------------------------------------------
(* Properties of the page pipeline *)

\* the pages (by id) a pipeline chain is in flight for
PagesInFlight == { chains[c].pageId : c \in 1..Len(chains) }

\* C7: in every reachable state at most one page has an AI request chain
\* (formalize, then format) in flight.
C7_AtMostOnePageInFlight == Cardinality(PagesInFlight) <= 1

\* a page whose raw text is non-blank and whose processed text is empty
Eligible(pages) ==
    { k \in 1..Len(pages) :
        /\ pages[k].kind = "page"
        /\ pages[k].rawContent # Undefined
        /\ trim(pages[k].rawContent) # NoText
        /\ pages[k].processedContent \in {NoText, Undefined} }

LowestEligible(pages) ==
    CHOOSE k \in Eligible(pages) : \A j \in Eligible(pages) : k <= j

\* C8: when the debounce timer fires, the page selected for processing is
\* the lowest-index page whose raw text is non-blank and whose processed
\* text is empty: a request chain is started for it; if no such page exists
\* no request is issued and no state changes.
C8_TimerSelectsLowestEligible ==
    [][ (TimerFires /\ chainsStarted < MaxChains) =>
           IF Eligible(docData.pages) # {}
           THEN LET k == LowestEligible(docData.pages) IN
                /\ processingPageIndex' = k - 1
                /\ Len(chains') = Len(chains) + 1
                /\ chains'[Len(chains')].pageToProcessIndex = k - 1
                /\ chains'[Len(chains')].rawContent = docData.pages[k].rawContent
                /\ chains'[Len(chains')].stage = "formalize"
           ELSE UNCHANGED <<docData, processingPageIndex, proofreadingPageIndex,
                            isGeneratingDraft, chains, proofread, activeTab>>
      ]_vars

\* the fields of the document other than its pages
NonPageFields(doc) == <<doc.subject, doc.recipients, doc.signerTitle>>

\* a call of handlePageContentChange(index, rawContent): by the textarea, or
\* by handleProofreadPage with the corrected text
ContentChange(index, rawContent) ==
    \/ EditPageAt(index, rawContent)
    \/ /\ ProofreadReturns
       /\ index = proofread.index
       /\ rawContent = Proofread(proofread.rawContent)

\* C9: handlePageContentChange on the page at index i sets that page's raw
\* text, empties its processed and formatted text, and leaves every other
\* page, the number and order of the pages and the non-page fields of the
\* document unchanged.
C9_EditClearsOnlyThatPage ==
    [][ \A index \in 0..(Len(docData.pages) - 1), rawContent \in RawInputs :
          (ContentChange(index, rawContent) /\ docData.pages[index + 1].kind = "page") =>
             /\ Len(docData'.pages) = Len(docData.pages)
             /\ docData'.pages[index + 1].id = docData.pages[index + 1].id
             /\ docData'.pages[index + 1].rawContent = rawContent
             /\ docData'.pages[index + 1].processedContent = NoText
             /\ docData'.pages[index + 1].formattedContent = NoText
             /\ \A k \in 1..Len(docData.pages) :
                   (k # index + 1 /\ docData.pages[k].kind = "page") =>
                       docData'.pages[k] = docData.pages[k]
             /\ NonPageFields(docData') = NonPageFields(docData)
      ]_vars

\* a page edited to whitespace (only the textarea produces such a text) with
\* its derived text empty, beside a page that keeps its derived text
C9_Witness ==
    \E k, j \in 1..Len(docData.pages) :
        /\ k # j
        /\ docData.pages[k].rawContent = <<" ">>
        /\ docData.pages[k].processedContent = NoText
        /\ docData.pages[k].formattedContent = NoText
        /\ docData.pages[j].processedContent = Formalized(docData.pages[j].rawContent)
        /\ docData.pages[j].formattedContent = Markdown(docData.pages[j].processedContent)
        /\ docData.subject = "user"

----------------------------------------------------------------------------
(* Properties of the upload list *)

\* C10: removeFile deletes exactly the entry with that identifier; every
\* other entry remains, in the same relative order, with its status,
\* content and error unchanged.
C10_RemoveFileRemovesOnlyThatEntry ==
    [][ \A id \in 1..(nextFileId - 1) :
          RemoveFileOf(id) =>
             \E k \in 1..Len(processedFiles) :
                /\ processedFiles[k].id = id
                /\ processedFiles' =
                      SubSeq(processedFiles, 1, k - 1)
                          \o SubSeq(processedFiles, k + 1, Len(processedFiles))
                /\ \A j \in 1..Len(processedFiles') : processedFiles'[j].id # id
      ]_vars

\* an entry has been removed (its id was handed out and is gone) from
\* between two entries that are still there, one done and one failed
C10_Witness ==
    /\ Len(processedFiles) = 2
    /\ \E id \in 1..(nextFileId - 1) :
          /\ \A k \in 1..Len(processedFiles) : processedFiles[k].id # id
          /\ processedFiles[1].id < id
          /\ id < processedFiles[2].id
    /\ processedFiles[1].status = "error"
    /\ processedFiles[2].status = "done"
    /\ processedFiles[2].content # NoText


----------------------------------------------------------------------------
(* Properties of the debounce timer *)

\* a pipeline chain is started by this step
ChainStarts == Len(chains') = Len(chains) + 1

\* C11: a pipeline chain is started only by the debounce timer armed at the
\* last change of the page list (1.5 s without a change have passed), every
\* change of the page list on the draft tab replaces the pending timer by a
\* new one closing over the new list, and at most one chain is started per
\* quiescence window, i.e. between two changes of the page list.
C11_OneChainPerQuiescenceWindow ==
    [][ /\ ChainStarts =>
            /\ debounceTimer.pending
            /\ ~debounceTimer'.pending
            /\ debounceTimer.pages = docData.pages
            /\ chainsInWindow = 0
        /\ (docData'.pages # docData.pages /\ activeTab = "draft" /\ ~crashed') =>
            debounceTimer' = ArmedTimer(docData'.pages)
      ]_vars


----------------------------------------------------------------------------
(* Properties of the file queue *)

\* the positions of the entries with this status
WithStatus(files, status) == { k \in 1..Len(files) : files[k].status = status }

\* C12: in every reachable state at most one file of the upload list has
\* status 'processing', also when several files are added in one batch.
C12_AtMostOneFileProcessing ==
    Cardinality(WithStatus(processedFiles, "processing")) <= 1

\* C13: whenever a file moves from 'pending' to 'processing' no file at an
\* earlier position of the list is still 'pending', and files added later
\* are appended after all existing entries, as pending entries.
C13_PickupIsFirstInFirstOut ==
    [][ /\ \A k \in 1..Len(processedFiles) :
              (/\ ProcessQueue
               /\ processedFiles[k].status = "pending"
               /\ processedFiles'[k].status = "processing") =>
                  /\ \A j \in 1..(k - 1) : processedFiles[j].status # "pending"
                  /\ processedFiles' = SetStatus(processedFiles, processedFiles[k].id,
                                                 "processing")
        /\ AddFiles =>
              /\ Len(processedFiles') > Len(processedFiles)
              /\ SubSeq(processedFiles', 1, Len(processedFiles)) = processedFiles
              /\ \A k \in (Len(processedFiles) + 1)..Len(processedFiles') :
                    /\ processedFiles'[k].status = "pending"
                    /\ \A j \in 1..(k - 1) : processedFiles'[j].id # processedFiles'[k].id
      ]_vars

\* a file has been picked up past a finished entry while a later entry,
\* added by a second batch, still waits
C13_Witness ==
    /\ Len(processedFiles) = 3
    /\ processedFiles[1].status \in {"done", "error"}
    /\ processedFiles[2].status = "processing"
    /\ processedFiles[3].status = "pending"

\* C14: a failure while extracting one file changes only that file's entry,
\* whose status becomes 'error' with the failure's message; the status,
\* content and error of every other file of the list are unchanged.
C14_ExtractionFailureIsLocal ==
    [][ ExtractionFails =>
          \E run \in extracting, message \in ExtractionErrors :
             /\ extracting' = extracting \ {run}
             /\ Len(processedFiles') = Len(processedFiles)
             /\ \A k \in 1..Len(processedFiles) :
                   IF processedFiles[k].id = run[1]
                   THEN processedFiles'[k] =
                            [processedFiles[k] EXCEPT !.status = "error",
                                                      !.error = message]
                   ELSE processedFiles'[k] = processedFiles[k]
      ]_vars

\* one file failed with its message while its siblings, one done and one
\* still being extracted, keep their own status and content
C14_Witness ==
    \E a, b, c \in 1..Len(processedFiles) :
        /\ processedFiles[a].status = "error"
        /\ processedFiles[a].error \in ExtractionErrors
        /\ processedFiles[a].content = NoText
        /\ processedFiles[b].status = "done"
        /\ processedFiles[b].content = <<"y">>
        /\ processedFiles[b].error = Undefined
        /\ processedFiles[c].status = "processing"
        /\ processedFiles[c].error = Undefined

----------------------------------------------------------------------------
(* Failures of the page pipeline *)

\* the page with this id, as a set (empty when the page is gone)
PageById(pages, id) == { pages[k] : k \in { j \in 1..Len(pages) : pages[j].id = id } }

\* C15: a failure of one page's pipeline changes only the page the request
\* was issued for: every sibling page is still there with its raw,
\* processed and formatted text unchanged and no entry is added, also when
\* pages were added or removed while the request was in flight.
C15_PipelineFailureIsLocal ==
    [][ FormalizeFails =>
          \E c \in 1..Len(chains) :
             /\ chains[c].stage = "formalize"
             /\ chains' = RemoveAt(chains, c)
             /\ \A k \in 1..Len(docData.pages) :
                   (docData.pages[k].kind = "page"
                        /\ docData.pages[k].id # chains[c].pageId) =>
                      PageById(docData'.pages, docData.pages[k].id) = {docData.pages[k]}
             /\ \A k \in 1..Len(docData'.pages) :
                   \E j \in 1..Len(docData.pages) :
                       docData.pages[j].id = docData'.pages[k].id
      ]_vars


----------------------------------------------------------------------------
(* Properties of the AI service *)

\* C16: when the API key is absent every operation of the AI service
\* (generate draft, formalize, suggest formatting, proofread, extract text
\* from image, analyze) fails with the configuration error before the remote
\* model is invoked: no invocation of the request, no wait, no retry.
C16_MissingKeyFailsBeforeAnyRequest ==
    apiKey = "" =>
        /\ svcPc # "requesting"
        /\ retryPc = "idle"
        /\ invocations = 0
        /\ outcomes = << >>
        /\ waits = << >>
        /\ svcPc \in {"settled", "surfaced"} => svcResult = Thrown(ConfigError)

\* suggestFormattingWithAI, whose catch block swallows the errors of the
\* request, has rejected with the configuration error
C16_Witness ==
    /\ apiKey = ""
    /\ svcOp = "suggestFormattingWithAI"
    /\ svcPc = "surfaced"
    /\ svcResult.kind = "throw"
    /\ svcResult.error.message = ConfigMessage
    /\ invocations = 0

\* the call ended because the remote model answered with an error that is
\* not a rate-limit error and that carries a diagnostic text
RemoteErrorPassedThrough ==
    /\ retryPc = "thrown"
    /\ Len(outcomes) > 0
    /\ OtherFailure(outcomes[Len(outcomes)])
    /\ outcomes[Len(outcomes)].error.message # NoText

\* C17: when an operation of the AI service fails with a remote error that
\* is not a rate-limit error, the error text shown to the user contains the
\* provider's diagnostic text, at every entry point: page pipeline,
\* proofreading, draft generation, file analysis and image extraction.
C17_RemoteErrorTextIsSurfaced ==
    (svcPc = "surfaced" /\ RemoteErrorPassedThrough) =>
        includes(surfaced, outcomes[Len(outcomes)].error.message)


----------------------------------------------------------------------------
(* Edits during a request, and the repopulation of the derived fields *)

\* the chains in flight for the page at this index
ChainsOf(index) ==
    { c \in 1..Len(chains) :
        /\ chains[c].pageToProcessIndex = index
        /\ chains[c].pageId = docData.pages[index + 1].id }

AllPagesProcessed ==
    \A k \in 1..Len(docData.pages) :
        (/\ docData.pages[k].kind = "page"
         /\ docData.pages[k].rawContent # Undefined
         /\ trim(docData.pages[k].rawContent) # NoText) =>
            Truthy(docData.pages[k].processedContent)

\* C19: if the draft tab stays active, editing stops and every remote call
\* eventually returns, then eventually every page with non-blank raw text
\* has non-empty processed text (for the runs in which the exploration
\* bound on the number of chains is not reached).
C19_DerivedFieldsEventuallyRepopulated ==
    ([](chainsStarted < MaxChains) /\ <>[](activeTab = "draft"))
        => <>[]AllPagesProcessed


----------------------------------------------------------------------------
(* Properties of the display preferences *)

\* C20: the font family and font size written to storage by one session
\* (the values the user selected last) are the values in memory, and still
\* the values in storage, once all startup effects of the next session have
\* run; a stored value is never left replaced by the built-in default.
C20_PreferencesSurviveRestart ==
    (prefPc = "idle" /\ sessions > 1) =>
        \A k \in PrefKeys :
            /\ chosen[k] # NoItem =>
                  (fontState[k] = chosen[k] /\ storage[k] = chosen[k])
            /\ chosen[k] = NoItem =>
                  (fontState[k] = DefaultFont[k] /\ storage[k] = DefaultFont[k])

\* a later session has finished its startup and holds, in memory and in
\* storage, the non-default values selected in an earlier session
C20_Witness ==
    /\ prefPc = "idle"
    /\ sessions = MaxSessions
    /\ \A k \in PrefKeys :
          /\ chosen[k] # DefaultFont[k]
          /\ fontState[k] = chosen[k]
          /\ storage[k] = chosen[k]


----------------------------------------------------------------------------
(* Progress and lifecycle of the upload list *)

InList(id) == \E k \in 1..Len(processedFiles) : processedFiles[k].id = id
\* the status of the entry with this id ("none" when it is not in the list)
StatusOf(files, id) ==
    IF \E k \in 1..Len(files) : files[k].id = id
    THEN files[CHOOSE k \in 1..Len(files) : files[k].id = id].status
    ELSE "none"

\* C21: provided every extraction eventually returns or fails, every file
\* that is added and not removed eventually reaches status 'done' or
\* 'error', whatever the outcomes of the other files.
C21_EveryFileIsEventuallySettled ==
    \A id \in FileIds :
        InList(id) ~> (StatusOf(processedFiles, id) \in {"none", "done", "error"})


\* the moves of a file's status: added as 'pending', picked up, settled;
\* an entry of any status can be removed
LifecycleMoves ==
    { <<"none", "pending">>, <<"pending", "processing">>,
      <<"processing", "done">>, <<"processing", "error">> }
        \cup { <<status, "none">> : status \in {"pending", "processing", "done", "error"} }

\* C22: every file is added with status 'pending', its status only moves
\* pending -> processing -> done or pending -> processing -> error, 'done'
\* and 'error' are terminal, and the extraction of a file is started at most
\* once, also across reordering by drag and drop.
C22_FileStatusLifecycle ==
    [][ \A id \in FileIds :
          /\ StatusOf(processedFiles, id) # StatusOf(processedFiles', id) =>
                <<StatusOf(processedFiles, id), StatusOf(processedFiles', id)>>
                    \in LifecycleMoves
          /\ starts'[id] <= 1
      ]_vars


----------------------------------------------------------------------------
(* The formatting fallback *)

----------------------------------------------------------------------------
(* The analysis request *)

\* C24: an analysis request is started only after all files have been
\* processed: when analyzeText is invoked, by the main button or by a quick
\* prompt button, every file of the upload list is 'done' or 'error'.
C24_AnalysisOnlyAfterAllProcessed ==
    \A k \in 1..Len(analyzedWith) : analyzedWith[k] \in {"done", "error"}


----------------------------------------------------------------------------
(* Results of requests and the page list *)

\* the step leaves every entry other than the page with this id as it was
\* and keeps the number of entries
OnlyPageChanged(id) ==
    /\ Len(docData'.pages) = Len(docData.pages)
    /\ \A k \in 1..Len(docData.pages) :
          (docData.pages[k].kind # "page" \/ docData.pages[k].id # id) =>
              docData'.pages[k] = docData.pages[k]

\* C25: the result of a request (formalize, format, proofread, or the
\* pipeline's failure message) is applied only to the page it was requested
\* for: if pages were removed or added meanwhile it is written to the page
\* with the same id or to no page, and the number of pages is unchanged.
C25_ResultAppliedToRequestedPage ==
    [][ /\ (FormalizeReturns \/ FormalizeFails \/ FormatReturns) =>
              \E c \in 1..Len(chains) :
                 /\ \/ chains' = RemoveAt(chains, c)
                    \/ chains' = [chains EXCEPT
                          ![c].stage = "format",
                          ![c].processedResult = Formalized(chains[c].rawContent)]
                 /\ OnlyPageChanged(chains[c].pageId)
        /\ ProofreadReturns => OnlyPageChanged(proofread.pageId)
      ]_vars


\* no request is awaited and no debounce timer is pending
AtRest ==
    /\ chains = << >>
    /\ ~proofread.active
    /\ ~isGeneratingDraft
    /\ ~debounceTimer.pending

\* C26: in every state where no AI request is in flight and no debounce
\* timer is pending, each page's non-empty processed text was produced from
\* that page's current raw text, or is the failure message.
C26_NoStaleDerivedTextAtRest ==
    AtRest =>
        \A k \in 1..Len(docData.pages) :
            (/\ docData.pages[k].kind = "page"
             /\ docData.pages[k].rawContent # Undefined
             /\ docData.pages[k].processedContent # Undefined
             /\ docData.pages[k].processedContent # NoText) =>
                docData.pages[k].processedContent
                    \in {Formalized(docData.pages[k].rawContent), PipelineErrorMessage}


\* C27: the document always has at least one page: after any sequence of
\* add-page, remove-page, edit, proofread, draft-generation and pipeline
\* events the page list holds a page (the remove control is offered only
\* while there is more than one page).
C27_AtLeastOnePage ==
    /\ Len(docData.pages) >= 1
    /\ \E k \in 1..Len(docData.pages) : docData.pages[k].kind = "page"

\* a page was removed and the list is down to its last page, which is not
\* the page the document started with, and the remove control is gone
C27_Witness ==
    /\ Len(docData.pages) = 1
    /\ docData.pages[1].kind = "page"
    /\ docData.pages[1].id = 2
    /\ nextPageId = 3
    /\ ~crashed


----------------------------------------------------------------------------
(* The processing indicator *)

\* the indicator names the page of every chain in flight, and is null when
\* no chain is in flight
IndicatorAccurate ==
    /\ chains = << >> => processingPageIndex = NullIndex
    /\ chains # << >> =>
          /\ processingPageIndex # NullIndex
          /\ \A c \in 1..Len(chains) :
                /\ processingPageIndex < Len(docData.pages)
                /\ docData.pages[processingPageIndex + 1].kind = "page"
                /\ docData.pages[processingPageIndex + 1].id = chains[c].pageId

\* C28: processingPageIndex is non-null and equal to the index of the page
\* being processed in every state where a pipeline chain is in flight, and
\* null in every state where none is; so proofreading, whose button is
\* disabled while processingPageIndex is non-null, cannot be started while a
\* chain is in flight.
C28_ProcessingIndicatorAccurate ==
    [][ /\ IndicatorAccurate'
        /\ ClickProofread => chains = << >>
      ]_vars


----------------------------------------------------------------------------
(* After a failure of the pipeline *)

\* C29: after a page's pipeline fails, that page's processed text is the
\* fixed failure message and its formatted text is empty, and the pipeline
\* does not select that page again until its raw text is changed: a chain
\* starts only for a page without processed text, and a page holding the
\* failure message keeps a processed text as long as its raw text is the
\* same.
C29_FailedPageIsNotRetried ==
    [][ /\ FormalizeFails =>
              \E c \in 1..Len(chains) :
                 /\ chains[c].stage = "formalize"
                 /\ chains' = RemoveAt(chains, c)
                 /\ \A k \in 1..Len(docData'.pages) :
                       (/\ docData'.pages[k].kind = "page"
                        /\ docData'.pages[k].id = chains[c].pageId) =>
                           /\ docData'.pages[k].processedContent = PipelineErrorMessage
                           /\ docData'.pages[k].formattedContent = NoText
        /\ (TimerFires /\ Len(chains') > Len(chains)) =>
              \A k \in 1..Len(docData.pages) :
                 (/\ docData.pages[k].kind = "page"
                  /\ docData.pages[k].id = chains'[Len(chains')].pageId) =>
                     docData.pages[k].processedContent = NoText
        /\ \A k \in 1..Len(docData.pages), j \in 1..Len(docData'.pages) :
              (/\ docData.pages[k].kind = "page"
               /\ docData'.pages[j].kind = "page"
               /\ docData.pages[k].id = docData'.pages[j].id
               /\ docData.pages[k].processedContent = PipelineErrorMessage
               /\ docData'.pages[j].rawContent = docData.pages[k].rawContent) =>
                  Truthy(docData'.pages[j].processedContent)
      ]_vars


----------------------------------------------------------------------------
(* Removed files *)

\* C30: a removed file never reappears: when a file was removed while it
\* was pending or processing, the later completion or failure of its
\* extraction changes no entry of the list and does not add the file again.
C30_RemovedFileNeverReappears ==
    [][ /\ \A id \in FileIds :
              (id < nextFileId /\ ~InList(id)) => ~HasFile(processedFiles', id)
        /\ (ExtractionDone \/ ExtractionFails) =>
              \E run \in extracting :
                 /\ extracting' = extracting \ {run}
                 /\ ~InList(run[1]) => processedFiles' = processedFiles
      ]_vars

\* a file was removed while it was being extracted, its extraction has
\* settled since, and the list holds the other file of the batch only
C30_Witness ==
    /\ Len(processedFiles) = 1
    /\ \E id \in lateSettled :
          /\ ~InList(id)
          /\ starts[id] = 1
          /\ \A run \in extracting : run[1] # id


====
